---- MODULE Spec2Model ----
(***************************************************************************)
(* The five search drivers of src/algorithms.py (hill_climb,               *)
(* random_hill_climb, simulated_annealing, genetic_alg, mimic) as one      *)
(* state machine.  A behaviour is one call of one driver: Init fixes the   *)
(* driver, its parameters and the Problem; every action is one step of     *)
(* the driver's control flow (a loop iteration, the code before or after   *)
(* a loop).                                                                 *)
(*                                                                         *)
(* The Problem and the Schedule are collaborators whose code is not in     *)
(* src/; they are modelled from the interface table of the specification:  *)
(* a finite state space 0..NStates-1 laid out on a line (the neighbours    *)
(* of s are s-1 and s+1), an arbitrary fitness landscape fit (internal,    *)
(* always-maximise orientation), and an arithmetic-decay schedule          *)
(* max(init_temp - decay*t, min_temp).  A second Problem, used by the      *)
(* specification SpecOnes only, is the count-the-ones example of the       *)
(* specification: bit strings of NBits bits, single-bit-flip neighbours,   *)
(* fitness the number of ones.  A third Problem, handed to hill_climb in   *)
(* the specification FairSpec, has a noisy fitness: every evaluation of a  *)
(* state can give any fitness value.                                        *)
(***************************************************************************)
EXTENDS Integers, Sequences, FiniteSets

(* ------------------------------ bounds -------------------------------- *)
NStates == 3
MaxFit == 2
MaxRestarts == 2
MaxAttempts == 2
MaxPop == 2
MaxTemp == 2
\* the count-the-ones Problem: number of bits, and the largest restarts
NBits == 8
OnesRestarts == 5

(* ------------------------- program constants -------------------------- *)
\* np.inf: larger than every fitness; -1*Inf is -np.inf.
Inf == 1000
\* fixed-point unit of probabilities and uniform draws: Scale stands for 1.0
Scale == 10000
\* number of terms of the exponential series
ExpTerms == 12

\* Python's None (best_state before any restart; locals not yet assigned)
None == -1
\* a local of simulated_annealing that the last iteration did not assign
Unset == -2 * Inf

States == 0 .. (NStates - 1)
Algs == {"hill_climb", "random_hill_climb", "simulated_annealing",
         "genetic_alg", "mimic"}

VARIABLES
  alg,            \* the driver that was called
  layout,         \* Problem: "line", "bits" or "noisy", the kind of Problem it is
  restarts,       \* parameter restarts (hill_climb, random_hill_climb)
  max_attempts,   \* parameter max_attempts
  pop_size,       \* parameter pop_size (genetic_alg, mimic)
  mutation_prob,  \* parameter mutation_prob in percent (genetic_alg)
  keep_pct,       \* parameter keep_pct in percent (mimic)
  schedule,       \* parameter schedule (simulated_annealing)
  fit,            \* Problem: the fitness landscape, internal orientation
  maximize,       \* Problem: +1 or -1
  state,          \* Problem: current state
  fitness,        \* Problem: cached fitness of the current state
  neighbors,      \* Problem: neighbour list cached by find_neighbors
  population,     \* Problem: the population
  mate_probs,     \* Problem: selection weights of eval_mate_probs
  keep_sample,    \* Problem: elite kept by find_top_pct
  node_probs,     \* Problem: support of the model of eval_node_probs
  pc,             \* position of the driver
  r,              \* number of restarts started (the for loop's counter)
  attempts,       \* local attempts
  t,              \* local _t of simulated_annealing
  temp,           \* local temp
  next_state,     \* local next_state
  next_fitness,   \* local next_fitness
  delta_e,        \* local delta_e
  prob,           \* local prob, in units of 1/Scale
  u,              \* value of np.random.uniform() when it was called
  next_gen,       \* local next_gen of genetic_alg
  parent_1,       \* local parent_1 of genetic_alg
  parent_2,       \* local parent_2 of genetic_alg
  best_state,     \* local best_state (the returned state once pc = "done")
  best_fitness,   \* local best_fitness (the returned fitness once pc = "done")
  stall,          \* history: consecutive iterations without a strictly better candidate
  rejects,        \* history: consecutive iterations that left the current state as it was
  ends,           \* history: <<state, fitness>> of the Problem at the end of each restart
  calls,          \* history: the Problem operations called, in order, since the
                  \* innermost loop iteration under way began (since the call
                  \* began, before the first); the get_* accessors are left out
  resets,         \* history: number of reset() calls so far
  evals           \* history: the arguments of schedule.evaluate, in call order

params == <<alg, layout, restarts, max_attempts, pop_size, mutation_prob,
            keep_pct, schedule, fit, maximize>>
popvars == <<population, mate_probs, keep_sample, node_probs>>
salocals == <<t, temp, delta_e, prob, u>>
vars == <<alg, layout, restarts, max_attempts, pop_size, mutation_prob,
          keep_pct, schedule, fit, maximize, state, fitness, neighbors,
          population, mate_probs, keep_sample, node_probs, pc, r, attempts, t,
          temp, next_state, next_fitness, delta_e, prob, u, next_gen, parent_1,
          parent_2, best_state, best_fitness, stall, rejects, ends, calls,
          resets, evals>>

(* ------------------------------ helpers ------------------------------- *)
MaxOf(S) == CHOOSE x \in S : \A y \in S : y <= x
MinOf(S) == CHOOSE x \in S : \A y \in S : x <= y
Range(q) == {q[i] : i \in 1 .. Len(q)}

\* the history counters stall and rejects are kept finite: beyond
\* MaxAttempts + 1 they saturate
StallInc(n) == IF n <= MaxAttempts THEN n + 1 ELSE n

(* ------------------- the Problem (interface of section 6) ------------- *)
\* the states reset() can produce: the domain of the landscape
StateSpace == DOMAIN fit

\* bit strings of NBits bits are the numbers 0 .. 2^NBits - 1; bit i of s
BitStates == 0 .. (2 ^ NBits - 1)
Bit(s, i) == (s \div (2 ^ i)) % 2
AllOnes == 2 ^ NBits - 1

\* the count-the-ones fitness: the number of bits of s that are 1
RECURSIVE OnesBelow(_, _)
OnesBelow(s, n) == IF n = 0 THEN 0 ELSE Bit(s, n - 1) + OnesBelow(s, n - 1)
CountOnes(s) == OnesBelow(s, NBits)

\* s with bit i flipped
Flip(s, i) == IF Bit(s, i) = 1 THEN s - 2 ^ i ELSE s + 2 ^ i

\* find_neighbors(): the neighbour list of s, in the Problem's order: on the
\* line the states next to s, on bit strings the NBits single-bit flips of s
Neighbors(s) ==
  IF layout = "bits" THEN [i \in 1 .. NBits |-> Flip(s, i - 1)]
  ELSE IF s = 0 THEN <<1>>
  ELSE IF s = NStates - 1 THEN <<s - 1>>
  ELSE <<s - 1, s + 1>>

\* eval_fitness(s): the fitness of an arbitrary state; the current state is untouched
EvalFitness(s) == fit[s]

\* the values an evaluation of the fitness of s can give: fit[s], and for
\* the Problem with a noisy fitness (layout "noisy", handed to hill_climb
\* only) any fitness value, anew at every evaluation
Evaluations(s) == IF layout = "noisy" THEN 0 .. MaxFit ELSE {EvalFitness(s)}

\* best_neighbor() / best_child(): the best-fitness element of a list, the
\* first one among equally fit elements
BestOf(q) ==
  LET top == MaxOf({EvalFitness(q[i]) : i \in 1 .. Len(q)})
      first == MinOf({i \in 1 .. Len(q) : EvalFitness(q[i]) = top})
  IN q[first]

\* best_neighbor() as the Problem can answer it: the best of the list, and
\* for the Problem with a noisy fitness, which ranks the neighbours by
\* evaluations of its own, any element of the list
BestsOf(q) == IF layout = "noisy" THEN Range(q) ELSE {BestOf(q)}

\* reset(): a fresh random state s; prior population and model are cleared
Reset(s) ==
  /\ resets' = resets + 1
  /\ state' = s
  /\ fitness' \in Evaluations(s)
  /\ population' = <<>>
  /\ mate_probs' = <<>>
  /\ keep_sample' = <<>>
  /\ node_probs' = {}

\* reset() followed by random_pop(n): a fresh random state s and a fresh
\* random population pop of n individuals
ResetAndRandomPop(s, pop) ==
  /\ resets' = resets + 1
  /\ state' = s
  /\ fitness' = EvalFitness(s)
  /\ population' = pop
  /\ mate_probs' = <<>>
  /\ keep_sample' = <<>>
  /\ node_probs' = {}

\* random_pop(n): the populations it can produce
RandomPop(n) == [1 .. n -> States]

\* set_state(s): commit s as the current state and update the cached fitness
SetState(s) ==
  /\ state' = s
  /\ fitness' \in Evaluations(s)

\* eval_mate_probs(): fitness-proportional selection weights of the population
\* (uniform when every individual has fitness 0)
MateProbs(pop) ==
  IF \A i \in 1 .. Len(pop) : EvalFitness(pop[i]) = 0
  THEN [i \in 1 .. Len(pop) |-> 1]
  ELSE [i \in 1 .. Len(pop) |-> EvalFitness(pop[i])]

\* reproduce(p1, p2, mutation_prob): the children the Problem can return:
\* one of the parents, or any state when mutation is possible
Reproduce(p1, p2, mp) == {p1, p2} \cup (IF mp > 0 THEN States ELSE {})

\* find_top_pct(pct): the ceil(pct * n / 100) fittest individuals, ties kept
FindTopPct(pop, pct) ==
  LET n == Len(pop)
      k == (pct * n + 99) \div 100
      fs == {EvalFitness(pop[i]) : i \in 1 .. n}
      atLeast(v) == Cardinality({i \in 1 .. n : EvalFitness(pop[i]) >= v})
      theta == MaxOf({v \in fs : atLeast(v) >= k})
      Keep(x) == EvalFitness(x) >= theta
  IN SelectSeq(pop, Keep)

\* eval_node_probs(): the model re-estimated from the elite, as its support
NodeProbs(keep) == Range(keep)

\* sample_pop(n): the samples of size n the model can produce
SamplePop(n, support) == [1 .. n -> support]

\* get_maximize()
GetMaximize == maximize

(* ------------------------------ Schedule ------------------------------ *)
\* schedule.evaluate(t): arithmetic decay with a floor
Evaluate(sch, time) ==
  LET v == sch.init_temp - sch.decay * time
  IN IF v > sch.min_temp THEN v ELSE sch.min_temp

\* the schedules handed to simulated_annealing: all of them return 0 from
\* time init_temp on, so a call makes at most MaxTemp iterations and the
\* counter _t, on which the code puts no bound, stays within 0 .. MaxTemp
Schedules == [init_temp : 0 .. MaxTemp, decay : {1}, min_temp : {0}]
NoSchedule == [init_temp |-> 0, decay |-> 1, min_temp |-> 0]

(* --------------------------- initial state ---------------------------- *)
Init ==
  /\ alg \in Algs
  /\ layout = "line"
  /\ restarts \in (IF alg \in {"hill_climb", "random_hill_climb"}
                   THEN 0 .. MaxRestarts ELSE {0})
  /\ max_attempts \in (IF alg = "hill_climb" THEN {0} ELSE 0 .. MaxAttempts)
  /\ pop_size \in (IF alg \in {"genetic_alg", "mimic"} THEN 1 .. MaxPop ELSE {0})
  /\ mutation_prob \in (IF alg = "genetic_alg" THEN {0, 10} ELSE {0})
  /\ keep_pct \in (IF alg = "mimic" THEN {50, 100} ELSE {0})
  /\ schedule \in (IF alg = "simulated_annealing" THEN Schedules ELSE {NoSchedule})
  /\ fit \in [States -> 0 .. MaxFit]
  /\ maximize \in {1, -1}
  /\ state = 0
  /\ fitness = fit[0]
  /\ neighbors = <<>>
  /\ population = <<>>
  /\ mate_probs = <<>>
  /\ keep_sample = <<>>
  /\ node_probs = {}
  /\ pc = alg
  /\ r = 0
  /\ attempts = 0
  /\ t = 0
  /\ temp = Unset
  /\ next_state = None
  /\ next_fitness = Unset
  /\ delta_e = Unset
  /\ prob = Unset
  /\ u = Unset
  /\ next_gen = <<>>
  /\ parent_1 = None
  /\ parent_2 = None
  /\ best_state = None
  /\ best_fitness = Unset
  /\ stall = 0
  /\ rejects = 0
  /\ ends = <<>>
  /\ calls = <<>>
  /\ resets = 0
  /\ evals = <<>>

\* the Problem operations of a loop iteration that end with set_state when
\* the candidate was committed
Committing(ops, moved) == IF moved THEN Append(ops, "set_state") ELSE ops

(* ----------------------------- hill_climb ----------------------------- *)
\* lines 26-27
HCInit ==
  /\ pc = "hill_climb"
  /\ best_fitness' = -1 * Inf
  /\ best_state' = None
  /\ pc' = "hc_for"
  /\ UNCHANGED <<params, resets, state, fitness, neighbors, popvars, r,
                 attempts, salocals, next_state, next_fitness, next_gen,
                 parent_1, parent_2, stall, rejects, ends, evals, calls>>

\* lines 29-31: the next restart begins with reset()
HCRestart ==
  /\ pc = "hc_for"
  /\ r < restarts
  /\ \E s \in StateSpace : Reset(s)
  /\ r' = r + 1
  /\ pc' = "hc_while"
  /\ calls' = <<"reset">>
  /\ UNCHANGED <<params, neighbors, attempts, salocals, next_state,
                 next_fitness, next_gen, parent_1, parent_2, best_state,
                 best_fitness, stall, rejects, ends, evals>>

\* a slip in line 40: < for >
HCImprovesReversed(nf, f) == nf < f

\* a slip in line 40: >= for >
HCImprovesOrEqual(nf, f) == nf >= f

\* line 40: is the best neighbour an improvement
HCImproves(nf, f) == nf > f

\* a slip in line 35: the neighbours are only computed when none are cached
HCStaleNeighbors(cache, s) == IF cache = <<>> THEN Neighbors(s) ELSE cache

\* line 35: problem.find_neighbors() replaces the cached list by the
\* neighbours of the current state s
HCFindNeighbors(cache, s) == Neighbors(s)

\* lines 35-41: the Problem operations of one iteration, in order
HCStepCalls(moved) ==
  Committing(<<"find_neighbors", "best_neighbor", "eval_fitness">>, moved)

\* lines 33-44: one iteration of the while True loop
HCStep ==
  /\ pc = "hc_while"
  /\ neighbors' = HCFindNeighbors(neighbors, state)
  /\ next_state' \in BestsOf(neighbors')
  /\ next_fitness' \in Evaluations(next_state')
  /\ IF HCImproves(next_fitness', fitness)
     THEN /\ SetState(next_state')
          /\ pc' = "hc_while"
     ELSE /\ pc' = "hc_update"
          /\ UNCHANGED <<state, fitness>>
  /\ calls' = HCStepCalls(state' # state)
  /\ UNCHANGED <<params, resets, popvars, r, attempts, salocals, next_gen,
                 parent_1, parent_2, best_state, best_fitness, stall,
                 rejects, ends, evals>>

\* a slip in line 47: >= for >
HCBetterOrEqual(f, bf) == f >= bf

\* line 47: does this restart beat the best so far
HCBetter(f, bf) == f > bf

\* lines 46-49: after the inner loop, update the best state and fitness
HCUpdate ==
  /\ pc = "hc_update"
  /\ IF HCBetter(fitness, best_fitness)
     THEN /\ best_fitness' = fitness
          /\ best_state' = state
     ELSE UNCHANGED <<best_state, best_fitness>>
  /\ ends' = Append(ends, <<state, fitness>>)
  /\ pc' = "hc_for"
  /\ UNCHANGED <<params, resets, state, fitness, neighbors, popvars, r,
                 attempts, salocals, next_state, next_fitness, next_gen,
                 parent_1, parent_2, stall, rejects, evals, calls>>

\* line 51: the fitness handed back to the caller
HCOrient(m, bf) == m * bf

\* lines 51-52
HCReturn ==
  /\ pc = "hc_for"
  /\ ~(r < restarts)
  /\ best_fitness' = HCOrient(GetMaximize, best_fitness)
  /\ pc' = "done"
  /\ UNCHANGED <<params, resets, state, fitness, neighbors, popvars, r,
                 attempts, salocals, next_state, next_fitness, next_gen,
                 parent_1, parent_2, best_state, stall, rejects, ends, evals,
                 calls>>

(* -------------------------- random_hill_climb ------------------------- *)
\* lines 71-72
RHCInit ==
  /\ pc = "random_hill_climb"
  /\ best_fitness' = -1 * Inf
  /\ best_state' = None
  /\ pc' = "rhc_for"
  /\ UNCHANGED <<params, resets, state, fitness, neighbors, popvars, r,
                 attempts, salocals, next_state, next_fitness, next_gen,
                 parent_1, parent_2, stall, rejects, ends, evals, calls>>

\* a slip in lines 74-77: the reset() of line 76 is left out
RHCRestartNoReset ==
  /\ pc = "rhc_for"
  /\ r < restarts
  /\ attempts' = 0
  /\ stall' = 0
  /\ rejects' = 0
  /\ r' = r + 1
  /\ pc' = "rhc_while"
  /\ UNCHANGED <<params, resets, state, fitness, neighbors, popvars, salocals,
                 next_state, next_fitness, next_gen, parent_1, parent_2,
                 best_state, best_fitness, ends, evals, calls>>

\* lines 74-77: the next restart begins with reset() and attempts = 0
RHCRestart ==
  /\ pc = "rhc_for"
  /\ r < restarts
  /\ \E s \in StateSpace : Reset(s)
  /\ attempts' = 0
  /\ stall' = 0
  /\ rejects' = 0
  /\ r' = r + 1
  /\ pc' = "rhc_while"
  /\ calls' = <<"reset">>
  /\ UNCHANGED <<params, neighbors, salocals, next_state, next_fitness,
                 next_gen, parent_1, parent_2, best_state, best_fitness,
                 ends, evals>>

\* line 79: the loop condition
RHCContinue(a, k) == a < k

\* a slip in line 86: < for >
RHCImprovesReversed(nf, f) == nf < f

\* a slip in line 86: >= for >
RHCImprovesOrEqual(nf, f) == nf >= f

\* line 86: is the random neighbour an improvement
RHCImproves(nf, f) == nf > f

\* lines 81-87: the Problem operations of one iteration, in order
RHCStepCalls(moved) == Committing(<<"random_neighbor", "eval_fitness">>, moved)

\* lines 79-91: one iteration of the attempt loop
RHCStep ==
  /\ pc = "rhc_while"
  /\ RHCContinue(attempts, max_attempts)
  /\ \E n \in Range(Neighbors(state)) :
       /\ next_state' = n
       /\ next_fitness' = EvalFitness(n)
       /\ IF RHCImproves(EvalFitness(n), fitness)
          THEN /\ SetState(n)
               /\ attempts' = 0
               /\ stall' = 0
          ELSE /\ attempts' = attempts + 1
               /\ stall' = StallInc(stall)
               /\ UNCHANGED <<state, fitness>>
  /\ rejects' = IF state' = state THEN StallInc(rejects) ELSE 0
  /\ pc' = "rhc_while"
  /\ calls' = RHCStepCalls(state' # state)
  /\ UNCHANGED <<params, resets, neighbors, popvars, r, salocals, next_gen,
                 parent_1, parent_2, best_state, best_fitness, ends, evals>>

\* line 94: does this restart beat the best so far
RHCBetter(f, bf) == f > bf

\* lines 79, 93-96: the attempt loop is over; update the best state and fitness
RHCUpdate ==
  /\ pc = "rhc_while"
  /\ ~RHCContinue(attempts, max_attempts)
  /\ IF RHCBetter(fitness, best_fitness)
     THEN /\ best_fitness' = fitness
          /\ best_state' = state
     ELSE UNCHANGED <<best_state, best_fitness>>
  /\ ends' = Append(ends, <<state, fitness>>)
  /\ pc' = "rhc_for"
  /\ UNCHANGED <<params, resets, state, fitness, neighbors, popvars, r,
                 attempts, salocals, next_state, next_fitness, next_gen,
                 parent_1, parent_2, stall, rejects, evals, calls>>

\* a slip in line 98: the orientation is left out
RHCNoOrient(m, bf) == bf

\* line 98: the fitness handed back to the caller
RHCOrient(m, bf) == m * bf

\* lines 98-99
RHCReturn ==
  /\ pc = "rhc_for"
  /\ ~(r < restarts)
  /\ best_fitness' = RHCOrient(GetMaximize, best_fitness)
  /\ pc' = "done"
  /\ UNCHANGED <<params, resets, state, fitness, neighbors, popvars, r,
                 attempts, salocals, next_state, next_fitness, next_gen,
                 parent_1, parent_2, best_state, stall, rejects, ends, evals,
                 calls>>

(* ------------------------- simulated_annealing ------------------------ *)
\* the values np.random.uniform() can return, in units of 1/Scale: all in [0, 1)
Uniforms == {0, Scale \div 2, Scale - 1}

\* Scale * (1 + x + x^2/2! + ...) for x = num/den >= 0, term by term
RECURSIVE ExpSeries(_, _, _, _, _)
ExpSeries(num, den, k, term, acc) ==
  IF k > ExpTerms THEN acc
  ELSE LET nt == (term * num) \div (den * k)
       IN ExpSeries(num, den, k + 1, nt, acc + nt)

\* line 140: np.exp(delta_e/temp) in units of 1/Scale.  With temp = 0 numpy
\* divides to +-inf or nan: exp is inf for a positive delta_e, and 0 or nan
\* (smaller than no draw) otherwise
Exp(num, den) ==
  IF den = 0 THEN (IF num > 0 THEN Inf * Scale ELSE 0)
  ELSE IF num >= 0 THEN ExpSeries(num, den, 1, Scale, Scale)
  ELSE (Scale * Scale) \div ExpSeries(-num, den, 1, Scale, Scale)

\* a slip in line 153: the increment is left out
TimeStuck(time) == time

\* line 153: _t += 1
TimeInc(time) == time + 1

\* line 128: schedule.evaluate(time) is one more entry of the history evals
EvalsInc(log, time) == Append(log, time)

\* lines 123-125
SAInit ==
  /\ pc = "simulated_annealing"
  /\ \E s \in StateSpace : Reset(s)
  /\ t' = 0
  /\ attempts' = 0
  /\ stall' = 0
  /\ rejects' = 0
  /\ pc' = "sa_while"
  /\ calls' = <<"reset">>
  /\ UNCHANGED <<params, neighbors, r, temp, delta_e, prob, u, next_state,
                 next_fitness, next_gen, parent_1, parent_2, best_state,
                 best_fitness, ends, evals>>

\* a slip in line 127: <= for <
SAContinueOrEqual(a, k) == a <= k

\* line 127: the loop condition
SAContinue(a, k) == a < k

\* a slip in line 130: the test for 0 never succeeds
SANeverExhausted(tmp) == tmp < 0

\* line 130: the temperature is exhausted
SAExhausted(tmp) == tmp = 0

\* a slip in line 140: the sign of the exponent
SAProbNegated(de, tmp) == Exp(-de, tmp)

\* line 140: prob = np.exp(delta_e/temp)
SAProb(de, tmp) == Exp(de, tmp)

\* line 145: accept the move; the draw is only made when delta_e > 0 fails
SAAccept(de, draw, p) == (de > 0) \/ (draw < p)

\* lines 127-131: the iteration that finds the temperature at 0 leaves the loop
SAStop ==
  /\ pc = "sa_while"
  /\ SAContinue(attempts, max_attempts)
  /\ temp' = Evaluate(schedule, t)
  /\ SAExhausted(temp')
  /\ pc' = "sa_ret"
  /\ calls' = <<>>
  /\ evals' = EvalsInc(evals, t)
  /\ UNCHANGED <<params, resets, state, fitness, neighbors, popvars, r,
                 attempts, t, delta_e, prob, u, next_state, next_fitness,
                 next_gen, parent_1, parent_2, best_state, best_fitness,
                 stall, rejects, ends>>

\* lines 135-146: the Problem operations of one iteration, in order
SAStepCalls(moved) == Committing(<<"random_neighbor", "eval_fitness">>, moved)

\* lines 127-153: one iteration with a temperature other than 0
SAStep ==
  /\ pc = "sa_while"
  /\ SAContinue(attempts, max_attempts)
  /\ temp' = Evaluate(schedule, t)
  /\ ~SAExhausted(temp')
  /\ \E n \in Range(Neighbors(state)), draw \in Uniforms :
       /\ next_state' = n
       /\ next_fitness' = EvalFitness(n)
       /\ delta_e' = next_fitness' - fitness
       /\ prob' = SAProb(delta_e', temp')
       /\ u' = IF delta_e' > 0 THEN Unset ELSE draw
       /\ IF SAAccept(delta_e', draw, prob')
          THEN /\ SetState(n)
               /\ attempts' = 0
          ELSE /\ attempts' = attempts + 1
               /\ UNCHANGED <<state, fitness>>
       /\ stall' = IF delta_e' > 0 THEN 0 ELSE StallInc(stall)
  /\ rejects' = IF state' = state THEN StallInc(rejects) ELSE 0
  /\ t' = TimeInc(t)
  /\ pc' = "sa_while"
  /\ calls' = SAStepCalls(state' # state)
  /\ evals' = EvalsInc(evals, t)
  /\ UNCHANGED <<params, resets, neighbors, popvars, r, next_gen, parent_1,
                 parent_2, best_state, best_fitness, ends>>

\* line 155: the fitness handed back to the caller
SAOrient(m, f) == m * f

\* lines 155-158, reached from the break or from the loop condition
SAReturn ==
  /\ \/ pc = "sa_ret"
     \/ pc = "sa_while" /\ ~SAContinue(attempts, max_attempts)
  /\ best_fitness' = SAOrient(GetMaximize, fitness)
  /\ best_state' = state
  /\ pc' = "done"
  /\ UNCHANGED <<params, resets, state, fitness, neighbors, popvars, r,
                 attempts, salocals, next_state, next_fitness, next_gen,
                 parent_1, parent_2, stall, rejects, ends, evals, calls>>

(* ----------------------------- genetic_alg ---------------------------- *)
\* lines 180-182
GAInit ==
  /\ pc = "genetic_alg"
  /\ \E s \in StateSpace, pop \in RandomPop(pop_size) : ResetAndRandomPop(s, pop)
  /\ attempts' = 0
  /\ stall' = 0
  /\ rejects' = 0
  /\ pc' = "ga_while"
  /\ calls' = <<"reset", "random_pop">>
  /\ UNCHANGED <<params, neighbors, r, salocals, next_state, next_fitness,
                 next_gen, parent_1, parent_2, best_state, best_fitness,
                 ends, evals>>

\* line 184: the loop condition
GAContinue(a, k) == a < k

\* lines 184-189: a generation begins: mate probabilities, empty next_gen
GABegin ==
  /\ pc = "ga_while"
  /\ GAContinue(attempts, max_attempts)
  /\ mate_probs' = MateProbs(population)
  /\ next_gen' = <<>>
  /\ pc' = "ga_for"
  /\ calls' = <<"eval_mate_probs">>
  /\ UNCHANGED <<params, resets, state, fitness, neighbors, population,
                 keep_sample, node_probs, r, attempts, salocals, next_state,
                 next_fitness, best_state, best_fitness, stall, rejects,
                 ends, evals, parent_1, parent_2>>

\* a slip in line 191: one child too many
GAOneChildMore(n, size) == n <= size

\* line 191: for _ in range(pop_size), counted by the children produced so far
GAMoreChildren(n, size) == n < size

\* a slip in lines 195-196: the parent is looked up in the generation under
\* construction where it is long enough
GAParentFromNextGen(pop, gen, i) == IF i <= Len(gen) THEN gen[i] ELSE pop[i]

\* lines 195-196: problem.get_population()[selected[k]], the parent with the
\* selected index; next_gen (gen) plays no part
GAParent(pop, gen, i) == pop[i]

\* lines 191-200: one child from two parents drawn with replacement
GAChild ==
  /\ pc = "ga_for"
  /\ GAMoreChildren(Len(next_gen), pop_size)
  /\ \E i, j \in {k \in 1 .. pop_size : mate_probs[k] > 0} :
       /\ parent_1' = GAParent(population, next_gen, i)
       /\ parent_2' = GAParent(population, next_gen, j)
       /\ \E child \in Reproduce(parent_1', parent_2', mutation_prob) :
            next_gen' = Append(next_gen, child)
  /\ calls' = Append(calls, "reproduce")
  /\ UNCHANGED <<params, resets, state, fitness, neighbors, popvars, pc, r,
                 attempts, salocals, next_state, next_fitness, best_state,
                 best_fitness, stall, rejects, ends, evals>>

\* line 210: is the best child an improvement
GAImproves(nf, f) == nf > f

\* a slip in lines 203-205: best_child() is called before set_population
GACandidateOfOldPop(old_pop, new_pop) == BestOf(old_pop)

\* lines 203-205: best_child() follows set_population(next_gen), so it is the
\* best individual of the new population, not of the one it replaced
GACandidate(old_pop, new_pop) == BestOf(new_pop)

\* lines 203-211: the Problem operations that follow the last child, in order
GASelectCalls(moved) ==
  Committing(<<"set_population", "best_child", "eval_fitness">>, moved)

\* lines 202-215: the new generation replaces the population; its best child
\* is the candidate
GASelect ==
  /\ pc = "ga_for"
  /\ ~GAMoreChildren(Len(next_gen), pop_size)
  /\ population' = next_gen
  /\ next_state' = GACandidate(population, population')
  /\ next_fitness' = EvalFitness(next_state')
  /\ IF GAImproves(next_fitness', fitness)
     THEN /\ SetState(next_state')
          /\ attempts' = 0
          /\ stall' = 0
     ELSE /\ attempts' = attempts + 1
          /\ stall' = StallInc(stall)
          /\ UNCHANGED <<state, fitness>>
  /\ rejects' = IF state' = state THEN StallInc(rejects) ELSE 0
  /\ pc' = "ga_while"
  /\ calls' = calls \o GASelectCalls(state' # state)
  /\ UNCHANGED <<params, resets, neighbors, mate_probs, keep_sample,
                 node_probs, r, salocals, next_gen, parent_1, parent_2,
                 best_state, best_fitness, ends, evals>>

\* line 217: the fitness handed back to the caller
GAOrient(m, f) == m * f

\* lines 217-220
GAReturn ==
  /\ pc = "ga_while"
  /\ ~GAContinue(attempts, max_attempts)
  /\ best_fitness' = GAOrient(GetMaximize, fitness)
  /\ best_state' = state
  /\ pc' = "done"
  /\ UNCHANGED <<params, resets, state, fitness, neighbors, popvars, r,
                 attempts, salocals, next_state, next_fitness, next_gen,
                 parent_1, parent_2, stall, rejects, ends, evals, calls>>

(* -------------------------------- mimic ------------------------------- *)
\* lines 241-243
MimicInit ==
  /\ pc = "mimic"
  /\ \E s \in StateSpace, pop \in RandomPop(pop_size) : ResetAndRandomPop(s, pop)
  /\ attempts' = 0
  /\ stall' = 0
  /\ rejects' = 0
  /\ pc' = "mimic_while"
  /\ calls' = <<"reset", "random_pop">>
  /\ UNCHANGED <<params, neighbors, r, salocals, next_state, next_fitness,
                 next_gen, parent_1, parent_2, best_state, best_fitness,
                 ends, evals>>

\* line 245: the loop condition
MimicContinue(a, k) == a < k

\* a slip in line 261: the two fitnesses are oriented before they are compared
MimicImprovesOriented(nf, f) == GetMaximize * nf > GetMaximize * f

\* line 261: is the best child an improvement
MimicImproves(nf, f) == nf > f

\* a slip in lines 250-253: the sample is drawn before the model is
\* re-estimated, from the model of the generation before when there is one
MimicSampleOldModel(before, after) == IF before = {} THEN after ELSE before

\* lines 250-253: sample_pop follows eval_node_probs, so the model it samples
\* is the one just estimated (after), not the one the generation began with
MimicSampleModel(before, after) == after

\* lines 247-262: the Problem operations of one generation, in order
MimicStepCalls(moved) ==
  Committing(<<"find_top_pct", "eval_node_probs", "sample_pop",
               "set_population", "best_child", "eval_fitness">>, moved)

\* lines 245-266: one generation
MimicStep ==
  /\ pc = "mimic_while"
  /\ MimicContinue(attempts, max_attempts)
  /\ keep_sample' = FindTopPct(population, keep_pct)
  /\ node_probs' = NodeProbs(keep_sample')
  /\ \E new_sample \in SamplePop(pop_size,
                                  MimicSampleModel(node_probs, node_probs')) :
       population' = new_sample
  /\ next_state' = BestOf(population')
  /\ next_fitness' = EvalFitness(next_state')
  /\ IF MimicImproves(next_fitness', fitness)
     THEN /\ SetState(next_state')
          /\ attempts' = 0
          /\ stall' = 0
     ELSE /\ attempts' = attempts + 1
          /\ stall' = StallInc(stall)
          /\ UNCHANGED <<state, fitness>>
  /\ rejects' = IF state' = state THEN StallInc(rejects) ELSE 0
  /\ pc' = "mimic_while"
  /\ calls' = MimicStepCalls(state' # state)
  /\ UNCHANGED <<params, resets, neighbors, mate_probs, r, salocals,
                 next_gen, parent_1, parent_2, best_state, best_fitness,
                 ends, evals>>

\* a slip in line 268: the orientation is left out
MimicNoOrient(m, f) == f

\* line 268: the fitness handed back to the caller
MimicOrient(m, f) == m * f

\* line 269: .astype(int) truncates every component towards zero; the states
\* of the model are whole numbers, which truncation leaves as they are
AsTypeInt(s) == IF s >= 0 THEN s - (s % 1) ELSE -((-s) - ((-s) % 1))

\* lines 268-271
MimicReturn ==
  /\ pc = "mimic_while"
  /\ ~MimicContinue(attempts, max_attempts)
  /\ best_fitness' = MimicOrient(GetMaximize, fitness)
  /\ best_state' = AsTypeInt(state)
  /\ pc' = "done"
  /\ UNCHANGED <<params, resets, state, fitness, neighbors, popvars, r,
                 attempts, salocals, next_state, next_fitness, next_gen,
                 parent_1, parent_2, stall, rejects, ends, evals, calls>>

(* --------------------------- specifications --------------------------- *)
Next ==
  \/ HCInit \/ HCRestart \/ HCStep \/ HCUpdate \/ HCReturn
  \/ RHCInit \/ RHCRestart \/ RHCStep \/ RHCUpdate \/ RHCReturn
  \/ SAInit \/ SAStop \/ SAStep \/ SAReturn
  \/ GAInit \/ GABegin \/ GAChild \/ GASelect \/ GAReturn
  \/ MimicInit \/ MimicStep \/ MimicReturn

Spec == Init /\ [][Next]_vars

\* one call of hill_climb on a Problem with a noisy fitness: the landscape
\* fit plays no part, every evaluation can give any value of 0 .. MaxFit
InitNoisy ==
  /\ alg = "hill_climb"
  /\ layout = "noisy"
  /\ restarts \in 0 .. MaxRestarts
  /\ max_attempts = 0
  /\ pop_size = 0
  /\ mutation_prob = 0
  /\ keep_pct = 0
  /\ schedule = NoSchedule
  /\ fit = [s \in States |-> 0]
  /\ maximize \in {1, -1}
  /\ state = 0
  /\ fitness = 0
  /\ neighbors = <<>>
  /\ population = <<>>
  /\ mate_probs = <<>>
  /\ keep_sample = <<>>
  /\ node_probs = {}
  /\ pc = alg
  /\ r = 0
  /\ attempts = 0
  /\ t = 0
  /\ temp = Unset
  /\ next_state = None
  /\ next_fitness = Unset
  /\ delta_e = Unset
  /\ prob = Unset
  /\ u = Unset
  /\ next_gen = <<>>
  /\ parent_1 = None
  /\ parent_2 = None
  /\ best_state = None
  /\ best_fitness = Unset
  /\ stall = 0
  /\ rejects = 0
  /\ ends = <<>>
  /\ calls = <<>>
  /\ resets = 0
  /\ evals = <<>>

\* a call of any driver on a Problem with a landscape, or of hill_climb on
\* the Problem with a noisy fitness
InitAny == Init \/ InitNoisy

\* the driver is a single thread that runs to completion: a step that can be
\* taken is eventually taken
FairSpec == InitAny /\ [][Next]_vars /\ WF_vars(Next)

\* one call of hill_climb or of random_hill_climb
InitClimb == Init /\ alg \in {"hill_climb", "random_hill_climb"}
NextClimb ==
  \/ HCInit \/ HCRestart \/ HCStep \/ HCUpdate \/ HCReturn
  \/ RHCInit \/ RHCRestart \/ RHCStep \/ RHCUpdate \/ RHCReturn
SpecClimb == InitClimb /\ [][NextClimb]_vars

\* one call of simulated_annealing
InitSA == Init /\ alg = "simulated_annealing"
NextSA == SAInit \/ SAStop \/ SAStep \/ SAReturn
SpecSA == InitSA /\ [][NextSA]_vars

\* one call of genetic_alg or of mimic
InitPop == Init /\ alg \in {"genetic_alg", "mimic"}
NextPop ==
  \/ GAInit \/ GABegin \/ GAChild \/ GASelect \/ GAReturn
  \/ MimicInit \/ MimicStep \/ MimicReturn
SpecPop == InitPop /\ [][NextPop]_vars

\* one call of hill_climb on the count-the-ones Problem: bit strings of NBits
\* bits, single-bit-flip neighbourhoods, fitness the number of ones
InitOnes ==
  /\ alg = "hill_climb"
  /\ layout = "bits"
  /\ restarts \in 0 .. OnesRestarts
  /\ max_attempts = 0
  /\ pop_size = 0
  /\ mutation_prob = 0
  /\ keep_pct = 0
  /\ schedule = NoSchedule
  /\ fit = [s \in BitStates |-> CountOnes(s)]
  /\ maximize \in {1, -1}
  /\ state = 0
  /\ fitness = fit[0]
  /\ neighbors = <<>>
  /\ population = <<>>
  /\ mate_probs = <<>>
  /\ keep_sample = <<>>
  /\ node_probs = {}
  /\ pc = alg
  /\ r = 0
  /\ attempts = 0
  /\ t = 0
  /\ temp = Unset
  /\ next_state = None
  /\ next_fitness = Unset
  /\ delta_e = Unset
  /\ prob = Unset
  /\ u = Unset
  /\ next_gen = <<>>
  /\ parent_1 = None
  /\ parent_2 = None
  /\ best_state = None
  /\ best_fitness = Unset
  /\ stall = 0
  /\ rejects = 0
  /\ ends = <<>>
  /\ calls = <<>>
  /\ resets = 0
  /\ evals = <<>>
NextOnes == HCInit \/ HCRestart \/ HCStep \/ HCUpdate \/ HCReturn
SpecOnes == InitOnes /\ [][NextOnes]_vars

Done == pc = "done"

TypeOK ==
  /\ alg \in Algs
  /\ state \in StateSpace
  /\ fitness \in 0 .. MaxFit
  /\ attempts \in 0 .. MaxAttempts
  /\ best_state \in States \cup {None}

(* ------------------------------- claims ------------------------------- *)
\* the Problem evaluates the fitness of a state to the same value every time
ConsistentProblem == layout # "noisy"

\* C1 as stated: every call of every driver terminates, whatever the Problem
\* does, because the loops are bounded by counters.
C1_EveryCallTerminates == <>Done

\* C1 amended: a call terminates when the Problem evaluates every state to
\* the same fitness each time (and the fitness takes finitely many values,
\* and the schedule of simulated_annealing returns 0 at some time, as all
\* landscapes and schedules here do): every commit of hill_climb,
\* random_hill_climb, genetic_alg and mimic then strictly raises the fitness,
\* and simulated_annealing stops when the temperature is 0 at the latest.
C1_Terminates == <>(Done \/ ~ConsistentProblem)

\* a call of random_hill_climb that ran all its restarts and ended the last
\* one by exhausting the attempts
C1_Witness ==
  /\ Done
  /\ alg = "random_hill_climb"
  /\ restarts = MaxRestarts
  /\ max_attempts = MaxAttempts
  /\ attempts = max_attempts
  /\ Len(ends) = restarts

AttemptDrivers ==
  {"random_hill_climb", "simulated_annealing", "genetic_alg", "mimic"}

\* the returned fitness in internal orientation (maximize is +1 or -1)
ReportedInternal == maximize * best_fitness

\* the call has returned and at least one run of the attempt loop took place
Reported ==
  /\ Done
  /\ alg \in AttemptDrivers
  /\ alg = "random_hill_climb" => ends # <<>>

\* C2 as stated: the four attempt-bounded drivers never make more than
\* max_attempts consecutive iterations whose candidate is not strictly better
\* than the current state, and the fitness reported is, in internal
\* orientation, at least the fitness of the final committed state.
C2_Original ==
  /\ alg \in AttemptDrivers => stall <= max_attempts
  /\ Reported => ReportedInternal >= fitness

\* C2 amended: the four attempt-bounded drivers never make more than
\* max_attempts consecutive iterations that leave the current state as it
\* was; in random_hill_climb, genetic_alg and mimic these are the iterations
\* whose candidate is not strictly better, while simulated_annealing may
\* commit such candidates and so make any number of them in a row.  The
\* fitness reported is, in internal orientation, at least the fitness of the
\* final committed state.
C2_Amended ==
  /\ alg \in AttemptDrivers => rejects <= max_attempts
  /\ alg \in AttemptDrivers \ {"simulated_annealing"} => stall <= max_attempts
  /\ Reported => ReportedInternal >= fitness

\* simulated_annealing returned after max_attempts rejections that ended a
\* longer run of iterations without a strictly better candidate
C2_Witness ==
  /\ Done
  /\ alg = "simulated_annealing"
  /\ max_attempts >= 1
  /\ rejects = max_attempts
  /\ stall > max_attempts
  /\ ReportedInternal = fitness

\* C3: in simulated_annealing, if the schedule returns 0 at time t0 then the
\* time counter never passes t0 (the loop is left at or before the iteration
\* with index t0), and the iteration that finds the temperature at 0 draws
\* no neighbour, computes no delta and no probability, makes no draw and
\* commits no state: it only leaves the loop.
C3_ZeroTempExit ==
  /\ [](\A t0 \in 0 .. MaxTemp : Evaluate(schedule, t0) = 0 => t <= t0)
  /\ [][temp' = 0 =>
          /\ pc' \in {"sa_ret", "done"}
          /\ UNCHANGED <<state, fitness, next_state, next_fitness, delta_e,
                         prob, u, attempts, t>>]_vars

\* the loop was left at t0 = init_temp > 0, after iterations that drew neighbours
C3_Witness ==
  /\ pc = "sa_ret"
  /\ temp = 0
  /\ schedule.init_temp > 0
  /\ t = schedule.init_temp
  /\ next_state # None

\* C4 as stated: whenever the acceptance probability has been computed,
\* delta_e <= 0 and the probability lies in (0, 1].
C4_Original ==
  prob # Unset => (delta_e <= 0 /\ 0 < prob /\ prob <= Scale)

\* C4 amended: the probability is computed in every iteration that draws a
\* neighbour, and it exceeds 1 when delta_e > 0; whenever it is compared
\* with the uniform draw, delta_e <= 0 and the probability lies in (0, 1].
C4_Amended ==
  /\ u # Unset => (delta_e <= 0 /\ 0 < prob /\ prob <= Scale)
  /\ (prob # Unset /\ delta_e > 0) => (prob > Scale /\ u = Unset)
  /\ next_state # None => prob # Unset

\* a worsening move was accepted by the draw
C4_Witness ==
  /\ alg = "simulated_annealing"
  /\ delta_e < 0
  /\ u # Unset
  /\ u < prob
  /\ prob < Scale
  /\ state = next_state

\* a step that enters an attempt loop
EntersLoop ==
  /\ pc \in {"rhc_for", "simulated_annealing", "genetic_alg", "mimic"}
  /\ pc' \in {"rhc_while", "sa_while", "ga_while", "mimic_while"}

\* a step that is one full iteration of an attempt loop
Iteration ==
  \/ pc = "rhc_while" /\ pc' = "rhc_while"
  \/ pc = "sa_while" /\ pc' = "sa_while"
  \/ pc = "ga_for" /\ pc' = "ga_while"
  \/ pc = "mimic_while" /\ pc' = "mimic_while"

\* the candidate of the iteration is strictly fitter than the current state
Improved == next_fitness' > fitness

\* the iteration committed its candidate with set_state
Committed == state' # state

\* C5 as stated: attempts starts at 0, becomes 0 exactly in the iterations
\* that commit a strictly better candidate, grows by 1 in every other
\* iteration, stays within 0..max_attempts, and no iteration starts once it
\* has reached max_attempts.
C5_Original ==
  /\ [](attempts >= 0 /\ attempts <= max_attempts)
  /\ [][/\ EntersLoop => attempts' = 0
        /\ Iteration =>
             /\ attempts < max_attempts
             /\ Committed <=> Improved
             /\ attempts' = 0 <=> Improved
             /\ ~Improved => attempts' = attempts + 1]_vars

\* C5 amended: attempts starts at 0, becomes 0 exactly in the iterations that
\* commit their candidate, grows by 1 in every other iteration, stays within
\* 0..max_attempts, and no iteration starts once it has reached max_attempts.
\* random_hill_climb, genetic_alg and mimic commit exactly the strictly
\* better candidates; simulated_annealing also commits a candidate that is
\* not better when the uniform draw is below the acceptance probability.
C5_Amended ==
  /\ [](attempts >= 0 /\ attempts <= max_attempts)
  /\ [][/\ EntersLoop => attempts' = 0
        /\ Iteration =>
             /\ attempts < max_attempts
             /\ attempts' = 0 <=> Committed
             /\ ~Committed => attempts' = attempts + 1
             /\ alg # "simulated_annealing" => (Committed <=> Improved)
             /\ alg = "simulated_annealing" =>
                  (Committed <=> (Improved \/ (u' # Unset /\ u' < prob')))]_vars

\* simulated_annealing has just committed a candidate that was no better,
\* which set attempts to 0 within a run of iterations without improvement
C5_Witness ==
  /\ pc = "sa_while"
  /\ delta_e <= 0
  /\ state = next_state
  /\ attempts = 0
  /\ stall >= 2

\* the step that hands the result back to the caller
Returning == pc # "done" /\ pc' = "done"

\* a step that compares a candidate with the current state: an iteration of
\* an attempt loop, or of the while True loop of hill_climb
Comparing == Iteration \/ pc = "hc_while"

\* the step of hill_climb and random_hill_climb that compares the end of a
\* restart with the best so far
RestartEnds ==
  \/ pc = "hc_update" /\ pc' = "hc_for"
  \/ pc = "rhc_while" /\ pc' = "rhc_for"

\* the internal fitness a driver ends with: the best over the restarts for
\* hill_climb and random_hill_climb, the Problem's current fitness otherwise
InternalEnd ==
  IF alg \in {"hill_climb", "random_hill_climb"} THEN best_fitness
  ELSE fitness

\* C6: every driver returns get_maximize() times the internal fitness it
\* ends with: the fitness of the returned state, or -infinity when no state
\* is returned; the three single-run drivers return get_maximize() times the
\* Problem's current fitness.  The multiplication is applied exactly once,
\* at the return: the returning step, after which there is no other step,
\* sets the result to get_maximize() times the internal fitness and leaves
\* the Problem's fitness alone, and until then the best-so-far fitness holds
\* internal values only (-infinity, or the fitness of a restart's end).  All
\* comparisons use the un-multiplied internal fitness: a candidate's fitness
\* is the Problem's evaluation of it and it is committed exactly when that
\* is greater than the current fitness (in simulated_annealing: when the
\* difference of the two is positive or the draw is below the acceptance
\* probability), and the end of a restart replaces the best so far exactly
\* when its fitness is greater, whatever get_maximize() is.
C6_Orientation ==
  /\ [](Done =>
         /\ best_fitness =
              maximize * (IF best_state = None THEN -1 * Inf
                          ELSE EvalFitness(best_state))
         /\ alg \notin {"hill_climb", "random_hill_climb"} =>
              (best_state = state /\ best_fitness = maximize * fitness))
  /\ [][/\ pc # "done"
        /\ Returning =>
             /\ best_fitness' = maximize * InternalEnd
             /\ fitness' = fitness
        /\ ~Returning =>
             best_fitness' =
               IF RestartEnds /\ fitness > best_fitness THEN fitness
               ELSE IF pc \in {"hill_climb", "random_hill_climb"}
                    THEN -1 * Inf
                    ELSE best_fitness
        /\ RestartEnds =>
             best_state' = IF fitness > best_fitness THEN state
                           ELSE best_state
        /\ Comparing =>
             /\ next_fitness' = EvalFitness(next_state')
             /\ alg = "simulated_annealing" =>
                  delta_e' = next_fitness' - fitness
             /\ IF \/ next_fitness' > fitness
                   \/ /\ alg = "simulated_annealing"
                      /\ u' # Unset
                      /\ u' < prob'
                THEN state' = next_state' /\ fitness' = next_fitness'
                ELSE state' = state /\ fitness' = fitness]_vars

\* mimic returned the negated fitness of a minimisation Problem; its last
\* generation compared a candidate of lower internal fitness with the
\* current state and did not commit it
C6_Witness ==
  /\ Done
  /\ alg = "mimic"
  /\ maximize = -1
  /\ fitness > 0
  /\ best_fitness = -1 * fitness
  /\ next_fitness # Unset
  /\ next_fitness < fitness
  /\ next_state # state

\* some neighbour of the current state is strictly fitter than it
SomeNeighborImproves ==
  \E i \in 1 .. Len(Neighbors(state)) :
    EvalFitness(Neighbors(state)[i]) > fitness

\* the highest fitness among the neighbours of the current state
TopNeighborFitness ==
  MaxOf({EvalFitness(Neighbors(state)[i]) : i \in 1 .. Len(Neighbors(state))})

\* C7: an iteration of hill_climb's inner loop commits a best neighbour and
\* stays in the loop when some neighbour is strictly fitter than the current
\* state, and leaves the loop without a commit when none is, also when the
\* best neighbour is exactly as fit.
C7_LocalOptimumExit ==
  [][pc = "hc_while" =>
       IF SomeNeighborImproves
       THEN /\ pc' = "hc_while"
            /\ state' \in Range(Neighbors(state))
            /\ fitness' = TopNeighborFitness
       ELSE /\ pc' = "hc_update"
            /\ state' = state
            /\ fitness' = fitness]_vars

\* the inner loop was left although the best neighbour is as fit as the
\* current state
C7_Witness ==
  /\ pc = "hc_update"
  /\ next_state # state
  /\ next_fitness = fitness
  /\ next_fitness = EvalFitness(next_state)

\* C8: within a restart of hill_climb and of random_hill_climb the fitness
\* of the current state never decreases, and it is the fitness of the state
\* that was committed.
C8_Monotone ==
  [][(pc \in {"hc_while", "rhc_while"} /\ pc' = pc) =>
       /\ fitness' >= fitness
       /\ fitness' = EvalFitness(state')]_vars

\* random_hill_climb has just committed a random neighbour
C8_Witness ==
  /\ pc = "rhc_while"
  /\ state = next_state
  /\ attempts = 0
  /\ fitness = next_fitness
  /\ fitness > 0

\* C9: in genetic_alg and mimic the population has exactly pop_size
\* individuals from random_pop on, after every set_population and at the
\* return.
C9_PopSize ==
  (alg \in {"genetic_alg", "mimic"} /\ pc # alg) =>
     Len(population) = pop_size

\* genetic_alg has just installed a generation of more than one child
C9_Witness ==
  /\ alg = "genetic_alg"
  /\ pc = "ga_while"
  /\ pop_size > 1
  /\ next_gen # <<>>
  /\ population = next_gen
  /\ rejects >= 1

\* the fitness values at the ends of the restarts
EndFitnesses == {ends[i][2] : i \in 1 .. Len(ends)}

\* the first restart whose final fitness is the highest
FirstBestRestart ==
  MinOf({i \in 1 .. Len(ends) : ends[i][2] = MaxOf(EndFitnesses)})

\* C10: hill_climb and random_hill_climb with restarts >= 1 return, in
\* internal orientation, the highest fitness any restart ended with, and the
\* final state of the first restart that ended with it.
C10_BestOverRestarts ==
  (Done /\ restarts >= 1) =>
     /\ Len(ends) = restarts
     /\ ReportedInternal = MaxOf(EndFitnesses)
     /\ best_state = ends[FirstBestRestart][1]

\* two restarts ended in different states of equal fitness and the first
\* one was returned
C10_Witness ==
  /\ Done
  /\ alg = "hill_climb"
  /\ Len(ends) = 2
  /\ ends[1][2] = ends[2][2]
  /\ ends[1][1] # ends[2][1]
  /\ best_state = ends[1][1]

\* C11: on the count-the-ones Problem with single-bit-flip neighbours, a call
\* of hill_climb with restarts >= 1 returns the all-ones state whatever the
\* random initial states were, with fitness NBits for maximize = +1 and
\* -NBits for maximize = -1, the returned state being the same in both cases.
C11_AllOnes ==
  (Done /\ restarts >= 1) =>
     /\ best_state = AllOnes
     /\ best_fitness = maximize * NBits
     /\ \A k \in 1 .. Len(ends) : ends[k] = <<AllOnes, NBits>>

\* the case of the specification read as a minimisation: OnesRestarts
\* restarts, all ones returned with fitness -NBits
C11_Witness ==
  /\ Done
  /\ layout = "bits"
  /\ restarts = OnesRestarts
  /\ maximize = -1
  /\ best_state = AllOnes
  /\ best_fitness = -NBits
  /\ Len(ends) = OnesRestarts

\* number of entries of the sequence q that are x
Count(q, x) == Cardinality({i \in 1 .. Len(q) : q[i] = x})

\* the steps of a generation of genetic_alg
GAGenerationBegins == alg = "genetic_alg" /\ pc = "ga_while" /\ pc' = "ga_for"
GAChildMade == alg = "genetic_alg" /\ pc = "ga_for" /\ pc' = "ga_for"
GAGenerationEnds == alg = "genetic_alg" /\ pc = "ga_for" /\ pc' = "ga_while"

\* C13: a generation of genetic_alg makes exactly pop_size children by
\* exactly pop_size calls of reproduce; both parents of every child are
\* individuals of the population as it stood when the generation began, which
\* stays as it is while the children are made; set_population is called once
\* per generation, after the last child, with the pop_size children.
C13_Generation ==
  [][/\ GAGenerationBegins =>
          /\ next_gen' = <<>>
          /\ population' = population
          /\ Count(calls', "reproduce") = 0
     /\ GAChildMade =>
          /\ Len(next_gen) < pop_size
          /\ population' = population
          /\ \E i, j \in 1 .. pop_size :
               /\ parent_1' = population[i]
               /\ parent_2' = population[j]
          /\ \E child \in Reproduce(parent_1', parent_2', mutation_prob) :
               next_gen' = Append(next_gen, child)
          /\ Count(calls', "reproduce") = Count(calls, "reproduce") + 1
          /\ Count(calls', "set_population") = 0
     /\ GAGenerationEnds =>
          /\ Len(next_gen) = pop_size
          /\ Count(calls, "reproduce") = pop_size
          /\ population' = next_gen
          /\ Count(calls', "reproduce") = pop_size
          /\ Count(calls', "set_population") = 1
          /\ calls'[Len(calls) + 1] = "set_population"
     /\ (alg = "genetic_alg" /\ pc # "genetic_alg" /\ population' # population)
          => GAGenerationEnds
    ]_vars

\* a generation of MaxPop children has just ended: two different parents
\* made the last child, a mutant that is neither of them, and the population
\* is the new generation
C13_Witness ==
  /\ alg = "genetic_alg"
  /\ pc = "ga_while"
  /\ pop_size = MaxPop
  /\ Count(calls, "reproduce") = pop_size
  /\ Count(calls, "set_population") = 1
  /\ population = next_gen
  /\ parent_1 # parent_2
  /\ next_gen[pop_size] \notin {parent_1, parent_2}

\* an iteration of simulated_annealing that drew a neighbour
SADrew == alg = "simulated_annealing" /\ pc = "sa_while" /\ pc' = "sa_while"

\* C14: the time counter of simulated_annealing starts at 0 and every
\* iteration that draws a neighbour adds exactly 1 to it, whether the move
\* was accepted or not; every iteration evaluates the schedule at the
\* counter, so the k-th evaluation is at k - 1.
C14_TimeCounter ==
  [][/\ (pc = "simulated_annealing" /\ pc' # pc) => (t' = 0 /\ evals' = <<>>)
     /\ SADrew =>
          /\ temp' = Evaluate(schedule, t)
          /\ t' = t + 1
          /\ evals' = Append(evals, t)
     /\ (alg = "simulated_annealing" /\ pc = "sa_while" /\ pc' = "sa_ret") =>
          /\ temp' = Evaluate(schedule, t)
          /\ t' = t
          /\ evals' = Append(evals, t)
     /\ \A k \in 1 .. Len(evals') : evals'[k] = k - 1
    ]_vars

\* two iterations drew a neighbour, the first moved and the second did
\* not; the schedule was evaluated at 0 and 1
C14_Witness ==
  /\ alg = "simulated_annealing"
  /\ pc = "sa_while"
  /\ t = 2
  /\ evals = <<0, 1>>
  /\ rejects = 1
  /\ attempts = 1

\* C15: in hill_climb every best_neighbor call comes right after a
\* find_neighbors call of the same iteration, made after the last reset or
\* set_state: the cached list it reads is the neighbour list of the current
\* state, never the list of an earlier one.
C15_FreshNeighbors ==
  [][(alg = "hill_climb") =>
       /\ \A k \in 1 .. Len(calls') :
            calls'[k] = "best_neighbor" =>
               /\ k > 1
               /\ calls'[k - 1] = "find_neighbors"
               /\ \A j \in 1 .. (k - 1) : calls'[j] \notin {"reset", "set_state"}
       /\ (pc = "hc_while") =>
            /\ Count(calls', "best_neighbor") = 1
            /\ neighbors' = Neighbors(state)
            /\ next_state' = BestOf(Neighbors(state))
       /\ (pc # "hc_while") =>
            /\ calls' \in {calls, <<"reset">>}
            /\ UNCHANGED <<neighbors, next_state>>
    ]_vars

\* the last restart has begun and its first iteration moved to the best
\* neighbour: the list cached before that iteration was the one of the
\* restart before, the list cached now is the one of the state just left
C15_Witness ==
  /\ alg = "hill_climb"
  /\ pc = "hc_while"
  /\ r = MaxRestarts
  /\ calls = <<"find_neighbors", "best_neighbor", "eval_fitness", "set_state">>
  /\ state = next_state
  /\ state = BestOf(neighbors)
  /\ neighbors # Neighbors(state)

\* a generation of mimic
MimicGeneration == alg = "mimic" /\ pc = "mimic_while" /\ pc' = "mimic_while"

\* C16: every generation of mimic calls find_top_pct(keep_pct),
\* eval_node_probs(), sample_pop(pop_size), set_population(sample),
\* best_child() and eval_fitness(candidate) in this order, each once; the
\* elite is taken from the population before, the model is estimated from
\* that elite, the population set is a sample of that model, and the
\* candidate is the best child of that population.  The population of mimic
\* changes in no other step.
C16_MimicOrder ==
  [][/\ MimicGeneration =>
          /\ SubSeq(calls', 1, 6) =
                <<"find_top_pct", "eval_node_probs", "sample_pop",
                  "set_population", "best_child", "eval_fitness">>
          /\ \A k \in 1 .. 6 : Count(calls', calls'[k]) = 1
          /\ keep_sample' = FindTopPct(population, keep_pct)
          /\ node_probs' = NodeProbs(keep_sample')
          /\ population' \in SamplePop(pop_size, node_probs')
          /\ next_state' = BestOf(population')
          /\ next_fitness' = EvalFitness(next_state')
     /\ (alg = "mimic" /\ pc # "mimic" /\ ~MimicGeneration) =>
          UNCHANGED <<population, keep_sample, node_probs, calls>>
    ]_vars

\* a generation that kept half of a population of MaxPop unequally fit
\* individuals, sampled the new population from that elite and committed its
\* best child
C16_Witness ==
  /\ alg = "mimic"
  /\ pc = "mimic_while"
  /\ pop_size = MaxPop
  /\ keep_pct = 50
  /\ Len(calls) = 7
  /\ calls[3] = "sample_pop"
  /\ calls[7] = "set_state"
  /\ Len(keep_sample) < pop_size
  /\ Range(population) \subseteq node_probs
  /\ state = BestOf(population)

\* the drivers with restarts, and the positions at which a restart or a
\* single run begins
ClimbDrivers == {"hill_climb", "random_hill_climb"}
RunBegins == pc \in {"hc_for", "rhc_for"} /\ pc' \in {"hc_while", "rhc_while"}
CallBegins == pc \in {"simulated_annealing", "genetic_alg", "mimic"} /\ pc' # pc

\* C17: reset() is the first Problem operation of every run.  hill_climb and
\* random_hill_climb call it once at the start of each restart and nowhere
\* else, restarts times in a whole call; simulated_annealing, genetic_alg and
\* mimic call it once, before every other Problem operation.
C17_ResetFirst ==
  [][/\ (RunBegins \/ CallBegins) =>
          /\ resets' = resets + 1
          /\ calls'[1] = "reset"
          /\ Count(calls', "reset") = 1
     /\ ~(RunBegins \/ CallBegins) =>
          /\ resets' = resets
          /\ Count(calls', "reset") <= Count(calls, "reset")
     /\ (resets = 0 /\ calls' # calls) => (calls = <<>> /\ calls'[1] = "reset")
     /\ (alg \in ClimbDrivers) =>
          /\ resets' = r'
          /\ (pc' = "done") => (resets' = restarts)
     /\ (alg \notin ClimbDrivers) =>
          resets' = (IF pc' = alg THEN 0 ELSE 1)
    ]_vars

\* a call of random_hill_climb that ran all its restarts, each of them with
\* iterations of the attempt loop, and made MaxRestarts reset calls
C17_Witness ==
  /\ Done
  /\ alg = "random_hill_climb"
  /\ restarts = MaxRestarts
  /\ max_attempts >= 1
  /\ resets = MaxRestarts
  /\ Count(calls, "reset") = 0

\* the drivers with a population, and the step that ends a generation
PopDrivers == {"genetic_alg", "mimic"}
GenerationEnds == GAGenerationEnds \/ MimicGeneration

\* C18: in genetic_alg and mimic the current state is the state of reset()
\* until a generation commits its candidate; a candidate is the best_child()
\* of the population that set_population installed in that generation and it
\* is committed exactly when it is strictly fitter than the current state
\* (the reset state, in the first generation); best_child() is never asked
\* about the initial random population, and the state returned is the
\* current state.
C18_Provenance ==
  [][(alg \in PopDrivers) =>
       /\ (pc = alg /\ pc' # pc) =>
            /\ calls' = <<"reset", "random_pop">>
            /\ fitness' = EvalFitness(state')
            /\ Len(population') = pop_size
       /\ GenerationEnds =>
            /\ Count(calls', "set_population") = 1
            /\ \A k \in 1 .. Len(calls') :
                 calls'[k] = "best_child" => calls'[k - 1] = "set_population"
            /\ next_state' = BestOf(population')
            /\ next_fitness' = EvalFitness(next_state')
            /\ IF next_fitness' > fitness
               THEN state' = next_state' /\ fitness' = next_fitness'
               ELSE UNCHANGED <<state, fitness>>
       /\ (pc # alg /\ ~GenerationEnds) =>
            /\ UNCHANGED <<state, fitness>>
            /\ Count(calls', "best_child") <= Count(calls, "best_child")
       /\ (pc' = "done" /\ pc # "done") =>
            /\ best_state' = state
            /\ best_fitness' = maximize * fitness
    ]_vars

\* genetic_alg returned a state that is no individual of its last
\* population: the state of reset() or the best child of an earlier
\* generation, which the best child of the last generation did not beat
C18_Witness ==
  /\ Done
  /\ alg = "genetic_alg"
  /\ pop_size = MaxPop
  /\ max_attempts = 1
  /\ rejects = 1
  /\ best_state = state
  /\ best_state \notin Range(population)
  /\ EvalFitness(BestOf(population)) <= fitness

\* C19: a call of hill_climb or random_hill_climb with restarts = 0 makes no
\* reset, neighbour or set_state call (no Problem operation other than
\* get_maximize, and the Problem stays as it was handed in) and returns None
\* with the fitness get_maximize() * -infinity: -infinity for a maximisation
\* Problem, +infinity for a minimisation Problem.
C19_NoRestarts ==
  (alg \in ClimbDrivers /\ restarts = 0) =>
     /\ calls = <<>>
     /\ resets = 0
     /\ state = 0 /\ fitness = fit[0]
     /\ neighbors = <<>>
     /\ next_state = None
     /\ ends = <<>>
     /\ pc \in {alg, "hc_for", "rhc_for", "done"}
     /\ Done =>
          /\ best_state = None
          /\ best_fitness = (IF maximize = 1 THEN -Inf ELSE Inf)

\* random_hill_climb returned from a call with restarts = 0 on a
\* minimisation Problem: None and +infinity
C19_Witness ==
  /\ Done
  /\ alg = "random_hill_climb"
  /\ restarts = 0
  /\ max_attempts = MaxAttempts
  /\ maximize = -1
  /\ best_state = None
  /\ best_fitness = Inf
====
